---------------------------- MODULE Spec2Model ----------------------------
(***************************************************************************)
(* Model of the resume page's interactivity layer (script.js).            *)
(*                                                                         *)
(* The page's modules are modelled as state machines, each over its own   *)
(* variables:                                                              *)
(*   - initExperience   : the <details> accordion      (SpecAccordion)     *)
(*   - initNavHighlight : the IntersectionObserver nav (SpecNav)           *)
(*   - its debounced resize listener                   (SpecResize)        *)
(*   - initContactForm  : validation and submit        (SpecForm, and     *)
(*     SpecFormAnyActions for a form without .form-actions)               *)
(*   - initSmoothScroll and initMobileNav, which share the document's     *)
(*     click events and the focus                      (SpecMenu)          *)
(*   - initSkillFilter  : filter buttons, roving focus (SpecFilter)        *)
(*   - the DOMContentLoaded listener on a page that may lack elements     *)
(*                                                     (SpecPage)          *)
(* The state machines share no state, so each specification moves one of  *)
(* them and leaves the variables of the others unchanged.                 *)
(*                                                                         *)
(* Every handler runs to completion on the UI thread: one action is one   *)
(* event dispatch, including every listener of that event and every       *)
(* event the handler itself raises synchronously (focus() raising blur).  *)
(***************************************************************************)
EXTENDS Integers, Sequences, FiniteSets

VARIABLES
    \* ---- initExperience ----
    open,           \* open[e]: the open attribute of details entry e
    ariaExpanded,   \* ariaExpanded[e]: aria-expanded of e's summary
    toggleQueue,    \* details entries with a queued toggle event task, oldest first
    handled,        \* entry whose toggle event the last step dispatched, 0 if the last step was none
    keyed,          \* entry on whose summary the last step pressed Space, 0 if the last step was none
    \* ---- initNavHighlight ----
    activeId,       \* let activeId (0 models null)
    ratioMap,       \* ratioMap: section id -> last reported intersection ratio
    linkClass,      \* linkClass[k]: nav link k carries class is-active
    ariaCurrent,    \* ariaCurrent[k]: nav link k's aria-current attribute
    prevActiveId,   \* activeId as the last observer callback found it
    \* ---- initContactForm ----
    value,          \* value[f]: the text in field f, a sequence of characters
    ariaInvalid,    \* ariaInvalid[f]: field f carries aria-invalid="true"
    errorText,      \* errorText[f]: textContent of f's error element
    groupError,     \* groupError[f]: f's group carries form-group--error
    focus,          \* document.activeElement: a field, "submit", "success" or "body"
    submitDisabled, \* submitBtn.disabled
    dataLoading,    \* submitBtn's data-loading attribute
    submitLabel,    \* submitBtn.textContent
    pendingSends,   \* send operations started and not yet settled
    controlsHidden, \* the .form-group and .form-actions elements are hidden
    successHidden,  \* successEl.hidden
    submitErrorCount, \* number of #submit-error elements in the form
    submitErrorText,  \* textContent of the #submit-error element
    corrected,      \* fields whose error an edit cleared and that were not validated since (history)
    last,           \* what the last step of the form did (history)
    formActions,    \* the form has a .form-actions element
    unhandled,      \* an exception or promise rejection that nothing handles has reached the page
    \* ---- initMobileNav, initSmoothScroll ----
    navOpen,        \* nav carries class is-open
    toggleExpanded, \* the toggle's aria-expanded attribute
    toggleLabel,    \* the toggle's aria-label attribute
    pageFocus,      \* document.activeElement among the elements the two modules touch
    tabindexAdded,  \* tabindexAdded[t]: target t carries the tabindex="-1" the script set
    blurCleanup,    \* blurCleanup[t]: a once-only blur listener is registered on target t
    scrolledTo,     \* target of the last scrollIntoView call, 0 before the first
    menuLast,       \* what the last step of the two modules did (history)
    \* ---- initSkillFilter ----
    dataHidden,     \* dataHidden[i]: skill item i carries data-hidden="true"
    emptyHidden,    \* emptyState.hidden
    ariaPressed,    \* ariaPressed[b]: filter button b carries aria-pressed="true"
    btnActive,      \* btnActive[b]: filter button b carries class filter-btn--active
    filterFocus,    \* the filter button that has focus, 0 if none has
    filterLast,     \* what the last step of the filter did (history)
    \* ---- DOMContentLoaded ----
    present,        \* the element kinds the page's markup has
    ready,          \* the DOMContentLoaded listener has run
    registered,     \* the modules whose listeners are registered
    changed,        \* the modules a listener of which has changed state
    initThrew,      \* an init function threw
    \* ---- debounce, resize listener ----
    timers,         \* remaining delay (ms) of every timeout the debounced listener has set
    elapsed,        \* ms since the last resize event, at most DebounceWait
    burstEvents,    \* resize events of the current burst, at most MaxBurst (history)
    burstFires,     \* re-subscriptions since the current burst began (history)
    observed,       \* the sections the observer observes
    queuedEntries,  \* sections with an entry queued for the observer callback
    resizeLast,     \* what the last step did (history)
    \* ---- the email rule applied to an argument ----
    emailArg,       \* the value the rule is applied to, a sequence of characters
    emailResult,    \* what the rule returned for it, "unset" before the call
    \* ---- initCopyEmail ----
    isCopied,       \* the button carries class is-copied
    confirmHidden,  \* confirm.hidden
    resetTimers,    \* remaining delay (ms) of every reset timeout that is set
    sinceConfirm,   \* ms since the last showConfirm(), at most ResetDelay (history)
    writesPending,  \* clipboard writes started and not yet settled
    copies,         \* copies started so far, at most MaxCopies (history)
    copyLast        \* what the last step did (history)

accVars == <<open, ariaExpanded, toggleQueue, handled, keyed>>
navVars == <<activeId, ratioMap, linkClass, ariaCurrent, prevActiveId>>
formVars == <<value, ariaInvalid, errorText, groupError, focus, submitDisabled,
              dataLoading, submitLabel, pendingSends, controlsHidden,
              successHidden, submitErrorCount, submitErrorText, corrected, last,
              formActions, unhandled>>
menuVars == <<navOpen, toggleExpanded, toggleLabel, pageFocus, tabindexAdded,
              blurCleanup, scrolledTo, menuLast>>
coreVars == <<accVars, navVars, formVars>>
filterVars == <<dataHidden, emptyHidden, ariaPressed, btnActive, filterFocus, filterLast>>
pageVars == <<present, ready, registered, changed, initThrew>>
resizeVars == <<timers, elapsed, burstEvents, burstFires, observed, queuedEntries,
                resizeLast>>
ruleVars == <<emailArg, emailResult>>
copyVars == <<isCopied, confirmHidden, resetTimers, sinceConfirm, writesPending, copies,
              copyLast>>
auxVars == <<menuVars, filterVars, pageVars, resizeVars, ruleVars, copyVars>>
vars == <<coreVars, auxVars>>

(***************************************************************************)
(* Bounds of the model.                                                    *)
(***************************************************************************)
NumEntries == 3     \* .experience-details entries on the page
NumSections == 3    \* section[id] elements on the page
NumLinks == 4       \* .nav-link[data-section] elements on the page
NumTargets == 2     \* elements with an id that same-page anchors point to
NumFilters == 4     \* .filter-btn elements in the filter group
NumItems == 3       \* .skill-item elements on the page
Quantum == 50       \* the largest step of time, in ms
MaxBurst == 3       \* resize events counted in one burst
MaxEmailLen == 6    \* length of the longest email value the rule is applied to
MaxCopies == 3      \* copies the user starts
MaxRatio == 3       \* intersection ratios are reported in steps of 1/MaxRatio

(***************************************************************************)
(* 5. EXPERIENCE                                                           *)
(***************************************************************************)
Entries == 1..NumEntries

OpenSet(op) == {e \in Entries : op[e]}

\* Changing a details element's open state queues a toggle event task for
\* it; a task already queued for the same element is replaced by the new one.
QueueToggle(q, e) == Append(SelectSeq(q, LAMBDA x : x # e), e)

\* detailsEls.forEach(other => { if (other !== details && other.open)
\*   other.removeAttribute('open') }), from entry i onwards.
RECURSIVE CloseOthers(_, _, _, _)
CloseOthers(details, i, op, q) ==
    IF i > NumEntries THEN [open |-> op, queue |-> q]
    ELSE IF i # details /\ op[i]
         THEN CloseOthers(details, i + 1, [op EXCEPT ![i] = FALSE], QueueToggle(q, i))
         ELSE CloseOthers(details, i + 1, op, q)

\* A bug the accordion listener could have: the other entries are left alone.
AccordionListenerKeepsOthers(details, op, q) == [open |-> op, queue |-> q]

\* The first toggle listener of an entry: the accordion rule.
AccordionListener(details, op, q) ==
    IF op[details] THEN CloseOthers(details, 1, op, q)
    ELSE [open |-> op, queue |-> q]

SyncAriaOnlyWhenOpen(details, op, aria) ==
    IF op[details] THEN [aria EXCEPT ![details] = TRUE] ELSE aria

\* The second toggle listener of an entry: syncAria.
SyncAria(details, op, aria) == [aria EXCEPT ![details] = op[details]]

\* The user activates entry e's summary (pointer, Enter, or Space through
\* the keydown listener's summary.click()): the browser flips the open
\* state and queues the entry's toggle event.
ClickSummary(e) ==
    /\ open' = [open EXCEPT ![e] = ~open[e]]
    /\ toggleQueue' = QueueToggle(toggleQueue, e)
    /\ handled' = 0
    /\ keyed' = 0
    /\ UNCHANGED <<ariaExpanded, navVars, formVars, auxVars>>

\* summary keydown listener: if (e.key === ' ') { e.preventDefault();
\* summary.click() }.  Whether the listener calls click().
SummaryKeydownListener(key) == key = " "

\* A key goes down on entry e's summary.  With the default prevented the
\* browser does not activate the summary itself, so Space toggles once,
\* through click(); a key the listener ignores and the browser does not
\* act on changes nothing.
SummaryKeydown(e, key) ==
    /\ IF SummaryKeydownListener(key)
       THEN /\ open' = [open EXCEPT ![e] = ~open[e]]
            /\ toggleQueue' = QueueToggle(toggleQueue, e)
            /\ keyed' = e
       ELSE /\ UNCHANGED <<open, toggleQueue>>
            /\ keyed' = 0
    /\ handled' = 0
    /\ UNCHANGED <<ariaExpanded, navVars, formVars, auxVars>>

\* The oldest queued toggle event is dispatched: both listeners run.
DispatchToggle ==
    /\ toggleQueue # <<>>
    /\ LET details == Head(toggleQueue)
           r == AccordionListener(details, open, Tail(toggleQueue))
       IN /\ open' = r.open
          /\ toggleQueue' = r.queue
          /\ ariaExpanded' = SyncAria(details, r.open, ariaExpanded)
          /\ handled' = details
          /\ keyed' = 0
    /\ UNCHANGED <<navVars, formVars, auxVars>>

\* The page as the accordion finds it: at most one entry is open in the
\* markup, and syncAria() has run once for every entry.
InitAccordion ==
    /\ open \in {op \in [Entries -> BOOLEAN] : Cardinality(OpenSet(op)) <= 1}
    /\ ariaExpanded = open
    /\ toggleQueue = <<>>
    /\ handled = 0
    /\ keyed = 0

\* One fixed accordion state, for the specifications of the other modules.
IdleAccordion ==
    /\ open = [e \in Entries |-> FALSE]
    /\ ariaExpanded = open
    /\ toggleQueue = <<>>
    /\ handled = 0
    /\ keyed = 0

SummaryKeys == {" ", "a"}

NextAccordion ==
    \/ \E e \in Entries : ClickSummary(e)
    \/ \E e \in Entries : \E key \in SummaryKeys : SummaryKeydown(e, key)
    \/ DispatchToggle

(***************************************************************************)
(* 2. NAV HIGHLIGHT                                                        *)
(***************************************************************************)
Null == 0
Sections == 1..NumSections      \* section ids, in document order
NavLinks == 1..NumLinks
Ratios == 0..MaxRatio

\* link.getAttribute('data-section'): links 1 and 2 both point at section
\* 1, the following ones at sections 2, 3, ..., and the last link at an id
\* that is no section of the page; the last section(s) may have no link.
DataSection(k) == IF k = NumLinks THEN NumSections + 1 ELSE (k + 1) \div 2

\* A bug the scan could have: >= instead of >, so the last maximum wins.
RECURSIVE ScanLastWins(_, _, _, _)
ScanLastWins(rm, i, topId, topRatio) ==
    IF i > NumSections THEN topId
    ELSE IF rm[i] >= topRatio /\ rm[i] > 0
         THEN ScanLastWins(rm, i + 1, i, rm[i])
         ELSE ScanLastWins(rm, i + 1, topId, topRatio)

\* ratioMap.forEach((ratio, id) => { if (ratio > topRatio) {...} }),
\* in the map's insertion order, which is the sections' document order.
RECURSIVE Scan(_, _, _, _)
Scan(rm, i, topId, topRatio) ==
    IF i > NumSections THEN topId
    ELSE IF rm[i] > topRatio
         THEN Scan(rm, i + 1, i, rm[i])
         ELSE Scan(rm, i + 1, topId, topRatio)

TopIdStartsAtFirst(rm) == Scan(rm, 1, 1, 0)

\* let topId = null; let topRatio = 0; then the scan.
TopId(rm) == Scan(rm, 1, Null, 0)

\* A bug setActive could have: the new link is marked, the old one is not unmarked.
SetActiveKeepsOld(id) ==
    IF id = activeId
    THEN UNCHANGED <<activeId, linkClass, ariaCurrent>>
    ELSE /\ activeId' = id
         /\ linkClass' = [k \in NavLinks |-> linkClass[k] \/ DataSection(k) = id]
         /\ ariaCurrent' = [k \in NavLinks |->
                IF DataSection(k) = id THEN "true" ELSE ariaCurrent[k]]

SetActive(id) ==
    IF id = activeId
    THEN UNCHANGED <<activeId, linkClass, ariaCurrent>>
    ELSE /\ activeId' = id
         /\ linkClass' = [k \in NavLinks |-> DataSection(k) = id]
         /\ ariaCurrent' = [k \in NavLinks |->
                IF DataSection(k) = id THEN "true" ELSE "false"]

\* The IntersectionObserver callback, given entries for the sections in S
\* with the ratios r.
ObserverCallback(S, r) ==
    LET rm == [s \in Sections |-> IF s \in S THEN r[s] ELSE ratioMap[s]]
        topId == TopId(rm)
    IN /\ ratioMap' = rm
       /\ prevActiveId' = activeId
       /\ IF topId # Null THEN SetActive(topId)
          ELSE UNCHANGED <<activeId, linkClass, ariaCurrent>>
       /\ UNCHANGED <<accVars, formVars, auxVars>>

\* The page as initNavHighlight leaves it: every ratio 0, no active id; the
\* markup may already mark any of the links.
InitNav ==
    /\ activeId = Null
    /\ prevActiveId = Null
    /\ ratioMap = [s \in Sections |-> 0]
    /\ linkClass \in [NavLinks -> BOOLEAN]
    /\ ariaCurrent = [k \in NavLinks |-> "absent"]

IdleNav ==
    /\ activeId = Null
    /\ prevActiveId = Null
    /\ ratioMap = [s \in Sections |-> 0]
    /\ linkClass = [k \in NavLinks |-> FALSE]
    /\ ariaCurrent = [k \in NavLinks |-> "absent"]

NextNav ==
    \E S \in (SUBSET Sections) \ {{}} :
        \E r \in [S -> Ratios] : ObserverCallback(S, r)

(***************************************************************************)
(* 6. CONTACT FORM                                                         *)
(*                                                                         *)
(* The page is complete: the form, its three fields with their error and  *)
(* group elements, the submit control inside .form-actions and the        *)
(* focusable success element are all present, and the fields follow each  *)
(* other in the document in the validators' order.                        *)
(***************************************************************************)
Fields == <<"name", "email", "message">>    \* Object.values(validators)
FieldSet == {"name", "email", "message"}

NoError == "null"                           \* a validator's null
MinNameLen == 2
MinMessageLen == 10

IdleLabel == "Send Message"
BusyLabel == "Sending..."
SubmitErrorMessage == "Something went wrong. Please try again or email me directly."

\* n copies of the character c
RECURSIVE Rep(_, _)
Rep(c, n) == IF n <= 0 THEN <<>> ELSE <<c>> \o Rep(c, n - 1)

\* String.prototype.trim, for the space character
RECURSIVE TrimLeft(_)
TrimLeft(s) == IF s # <<>> /\ Head(s) = " " THEN TrimLeft(Tail(s)) ELSE s

RECURSIVE TrimRight(_)
TrimRight(s) ==
    IF s # <<>> /\ s[Len(s)] = " " THEN TrimRight(SubSeq(s, 1, Len(s) - 1)) ELSE s

Trim(s) == TrimRight(TrimLeft(s))

\* /^[^\s@]+@[^\s@]+\.[^\s@]+$/.test(t), computed as a matcher does: the
\* positions of the pattern are 0 (start), 1 (in the first run), 2 (after
\* the "@"), 3 (in the second run), 4 (after the "."), 5 (in the third run);
\* a "." in the second run may also be the pattern's ".", so the matcher
\* follows every position the text read so far can be at.
PatternStep(q, c) ==
    LET run == c \notin {" ", "@"}
    IN  CASE q = 0 -> IF run THEN {1} ELSE {}
          [] q = 1 -> IF run THEN {1} ELSE IF c = "@" THEN {2} ELSE {}
          [] q = 2 -> IF run THEN {3} ELSE {}
          [] q = 3 -> IF c = "." THEN {3, 4} ELSE IF run THEN {3} ELSE {}
          [] q = 4 -> IF run THEN {5} ELSE {}
          [] q = 5 -> IF run THEN {5} ELSE {}

\* The positions the matcher can be at after the first n characters of t.
RECURSIVE PatternRun(_, _)
PatternRun(t, n) ==
    IF n = 0 THEN {0}
    ELSE UNION {PatternStep(q, t[n]) : q \in PatternRun(t, n - 1)}

EmailPattern(t) == 5 \in PatternRun(t, Len(t))

ValidateEmailUntrimmed(val) ==
    IF val = <<>> THEN "Email address is required."
    ELSE IF ~EmailPattern(val) THEN "Please enter a valid email address."
    ELSE NoError

ValidateNameAboveMinimum(val) ==
    IF Trim(val) = <<>> THEN "Name is required."
    ELSE IF Len(Trim(val)) <= MinNameLen THEN "Name must be at least 2 characters."
    ELSE NoError

ValidateName(val) ==
    IF Trim(val) = <<>> THEN "Name is required."
    ELSE IF Len(Trim(val)) < MinNameLen THEN "Name must be at least 2 characters."
    ELSE NoError

ValidateEmail(val) ==
    IF Trim(val) = <<>> THEN "Email address is required."
    ELSE IF ~EmailPattern(Trim(val)) THEN "Please enter a valid email address."
    ELSE NoError

ValidateMessage(val) ==
    IF Trim(val) = <<>> THEN "A message is required."
    ELSE IF Len(Trim(val)) < MinMessageLen THEN "Message must be at least 10 characters."
    ELSE NoError

\* config.validate(input.value)
Validate(f, val) ==
    CASE f = "name" -> ValidateName(val)
      [] f = "email" -> ValidateEmail(val)
      [] f = "message" -> ValidateMessage(val)

\* What the user may type into each field.
Al == <<"A", "l">>
NotAnEmail == <<"n", "o", "t", "-", "a", "n", "-", "e", "m", "a", "i", "l">>
Short == <<"s", "h", "o", "r", "t">>

NameInputs ==
    { <<>>, <<" ">>, <<"A">>, Al, <<" ", "A", " ">> }
EmailInputs ==
    { <<>>, <<"a", "@", "b">>, <<"a", "@", "b", ".", "c">>,
      <<" ", "a", "@", "b", ".", "c">>, <<"a", " ", "@", "b", ".", "c">>, NotAnEmail }
MessageInputs ==
    { <<>>, Rep("m", MinMessageLen - 1), Rep("m", MinMessageLen),
      <<" ">> \o Rep("m", MinMessageLen - 1) \o <<" ">>, Short }
Inputs(f) ==
    CASE f = "name" -> NameInputs
      [] f = "email" -> EmailInputs
      [] f = "message" -> MessageInputs

\* The error display of the three fields, as one value.
ErrorState == [invalid |-> ariaInvalid, text |-> errorText, group |-> groupError]

\* A bug showError could have: the message is shown, aria-invalid is not set.
ShowErrorNoMark(es, f, message) ==
    [invalid |-> es.invalid,
     text    |-> [es.text EXCEPT ![f] = message],
     group   |-> [es.group EXCEPT ![f] = TRUE]]

ShowError(es, f, message) ==
    [invalid |-> [es.invalid EXCEPT ![f] = TRUE],
     text    |-> [es.text EXCEPT ![f] = message],
     group   |-> [es.group EXCEPT ![f] = TRUE]]

ClearErrorKeepsText(es, f) ==
    [invalid |-> [es.invalid EXCEPT ![f] = FALSE],
     text    |-> es.text,
     group   |-> [es.group EXCEPT ![f] = FALSE]]

ClearError(es, f) ==
    [invalid |-> [es.invalid EXCEPT ![f] = FALSE],
     text    |-> [es.text EXCEPT ![f] = ""],
     group   |-> [es.group EXCEPT ![f] = FALSE]]

\* validateField(config): the new error display and the returned error.
ValidateField(es, val, f) ==
    LET error == Validate(f, val[f])
    IN [es    |-> IF error # NoError THEN ShowError(es, f, error) ELSE ClearError(es, f),
        error |-> error]

\* Object.values(validators).map(config => validateField(config)), from
\* the i-th validator onwards.
RECURSIVE MapValidateField(_, _, _, _, _)
MapValidateField(es, val, i, errors, order) ==
    IF i > Len(Fields) THEN [es |-> es, errors |-> errors, order |-> order]
    ELSE LET r == ValidateField(es, val, Fields[i])
         IN MapValidateField(r.es, val, i + 1,
                             Append(errors, r.error), Append(order, Fields[i]))

\* A bug validateAll could have: it stops at the first field in error.
RECURSIVE UntilFirstError(_, _, _, _, _)
UntilFirstError(es, val, i, errors, order) ==
    IF i > Len(Fields) THEN [es |-> es, errors |-> errors, order |-> order]
    ELSE LET r == ValidateField(es, val, Fields[i])
         IN IF r.error # NoError
            THEN [es |-> r.es, errors |-> Append(errors, r.error),
                  order |-> Append(order, Fields[i])]
            ELSE UntilFirstError(r.es, val, i + 1,
                                 Append(errors, r.error), Append(order, Fields[i]))

ValidateAllShortCircuit(es, val) ==
    LET r == UntilFirstError(es, val, 1, <<>>, <<>>)
    IN [es |-> r.es, errors |-> r.errors, order |-> r.order,
        valid |-> \A i \in 1..Len(r.errors) : r.errors[i] = NoError]

\* validateAll(): every field validated in order; valid iff every error is null.
ValidateAll(es, val) ==
    LET r == MapValidateField(es, val, 1, <<>>, <<>>)
    IN [es |-> r.es, errors |-> r.errors, order |-> r.order,
        valid |-> \A i \in 1..Len(r.errors) : r.errors[i] = NoError]

\* The blur listener of the element losing focus: validateField for a
\* field, nothing for any other element.
BlurOf(es, val, el) == IF el \in FieldSet THEN ValidateField(es, val, el).es ELSE es

\* qs('[aria-invalid="true"]', form): the first marked field in document
\* order, "none" if no field is marked.
RECURSIVE FirstMarked(_, _)
FirstMarked(invalid, i) ==
    IF i > Len(Fields) THEN "none"
    ELSE IF invalid[Fields[i]] THEN Fields[i]
    ELSE FirstMarked(invalid, i + 1)

FirstInvalid(invalid) == FirstMarked(invalid, 1)

\* A bug setSubmitLoading could have: the control is relabelled but stays enabled.
SetSubmitLoadingStaysEnabled(isLoading) ==
    [dataLoading |-> IF isLoading THEN "true" ELSE "false",
     disabled    |-> FALSE,
     label       |-> IF isLoading THEN BusyLabel ELSE IdleLabel]

SetSubmitLoading(isLoading) ==
    [dataLoading |-> IF isLoading THEN "true" ELSE "false",
     disabled    |-> isLoading,
     label       |-> IF isLoading THEN BusyLabel ELSE IdleLabel]

\* A bug showSubmitError could have: a new element on every failure.
ShowSubmitErrorAlwaysCreates(count, message) ==
    [count |-> count + 1, text |-> message]

\* showSubmitError(message): the element is created unless the form has one.
ShowSubmitError(count, message) ==
    [count |-> IF count = 0 THEN 1 ELSE count, text |-> message]

\* showSubmitError creates the element and places it with
\* qs('.form-actions', form).after(errEl): with no .form-actions in the form
\* the call is made on null and throws.  The throw is inside the catch block
\* of the async submit listener, so the listener's promise is rejected and
\* nothing handles it.
ShowSubmitErrorThrows(count, hasActions) == count = 0 /\ ~hasActions

\* The history record of a step.
Step(op, f) ==
    [op |-> op, field |-> f, errors |-> <<>>, order |-> <<>>,
     valid |-> FALSE, prevented |-> FALSE, wasInvalid |-> FALSE, reused |-> FALSE]

\* The submit control as one value.
Button == [dataLoading |-> dataLoading, disabled |-> submitDisabled, label |-> submitLabel]

\* A bug the input listener could have: it validates instead of clearing.
InputListenerRevalidates(es, val, f) ==
    IF es.invalid[f] THEN ValidateField(es, val, f).es ELSE es

\* The input listener of field f, run with the field's new value in val.
InputListener(es, val, f) ==
    IF es.invalid[f] THEN ClearError(es, f) ELSE es

\* A bug the submit listener could have: no return after focusing the
\* first invalid field, so an invalid form is sent as well.
SubmitListenerNoReturn(es, val, foc, btn, pending) ==
    LET r == ValidateAll(es, val)
        first == FirstInvalid(r.es.invalid)
    IN [es      |-> IF ~r.valid /\ first # "none" /\ first # foc
                    THEN BlurOf(r.es, val, foc) ELSE r.es,
        focus   |-> IF ~r.valid /\ first # "none" THEN first ELSE foc,
        button  |-> SetSubmitLoading(TRUE),
        pending |-> pending + 1,
        all     |-> r,
        prevented |-> TRUE]

\* The submit listener up to its await: the default action is cancelled and
\* validateAll() runs; an invalid form gets focus on its first marked field
\* (whose focus() blurs the element that had focus), a valid one puts the
\* submit control in its loading state and starts the send.
SubmitListener(es, val, foc, btn, pending) ==
    LET r == ValidateAll(es, val)
        first == FirstInvalid(r.es.invalid)
    IN IF ~r.valid
       THEN [es      |-> IF first # "none" /\ first # foc
                         THEN BlurOf(r.es, val, foc) ELSE r.es,
             focus   |-> IF first # "none" THEN first ELSE foc,
             button  |-> btn,
             pending |-> pending,
             all     |-> r,
             prevented |-> TRUE]
       ELSE [es      |-> r.es,
             focus   |-> foc,
             button  |-> SetSubmitLoading(TRUE),
             pending |-> pending + 1,
             all     |-> r,
             prevented |-> TRUE]

\* A bug showSuccess could have: the controls are hidden, the success
\* element is focused but never revealed.
ShowSuccessStaysHidden(es, val, foc) ==
    [es |-> BlurOf(es, val, foc), controlsHidden |-> TRUE,
     successHidden |-> TRUE, focus |-> "success"]

\* showSuccess(): the groups and the actions are hidden, the success
\* element is revealed and focused (blurring the element that had focus).
ShowSuccess(es, val, foc) ==
    [es |-> BlurOf(es, val, foc), controlsHidden |-> TRUE,
     successHidden |-> FALSE, focus |-> "success"]

\* The user moves focus (pointer or Tab) from field f to the element t.
LeaveField(f, t) ==
    /\ focus = f /\ t # f
    /\ t \in FieldSet \cup {"submit"} => ~controlsHidden
    /\ t = "submit" => ~submitDisabled
    /\ LET r == ValidateField(ErrorState, value, f)
       IN /\ ariaInvalid' = r.es.invalid
          /\ errorText' = r.es.text
          /\ groupError' = r.es.group
          /\ last' = [Step("blur", f) EXCEPT !.errors = <<r.error>>, !.order = <<f>>]
    /\ corrected' = corrected \ {f}
    /\ focus' = t
    /\ UNCHANGED <<value, submitDisabled, dataLoading, submitLabel, pendingSends,
                   controlsHidden, successHidden, submitErrorCount, submitErrorText,
                   formActions, unhandled,
                   accVars, navVars, auxVars>>

\* The user moves focus from an element that is no field to the element t.
FocusElement(t) ==
    /\ focus \notin FieldSet /\ t # focus
    /\ t \in FieldSet \cup {"submit"} => ~controlsHidden
    /\ t = "submit" => ~submitDisabled
    /\ focus' = t
    /\ last' = Step("focus", "none")
    /\ UNCHANGED <<value, ariaInvalid, errorText, groupError, submitDisabled,
                   dataLoading, submitLabel, pendingSends, controlsHidden, corrected,
                   successHidden, submitErrorCount, submitErrorText, formActions, unhandled,
                   accVars, navVars, auxVars>>

\* The user edits the focused field f: its value becomes v.
InputField(f, v) ==
    /\ focus = f /\ ~controlsHidden
    /\ v # value[f]
    /\ value' = [value EXCEPT ![f] = v]
    /\ LET es == InputListener(ErrorState, value', f)
       IN /\ ariaInvalid' = es.invalid
          /\ errorText' = es.text
          /\ groupError' = es.group
    /\ corrected' = IF ariaInvalid[f] THEN corrected \cup {f} ELSE corrected
    /\ last' = [Step("input", f) EXCEPT !.wasInvalid = ariaInvalid[f]]
    /\ UNCHANGED <<focus, submitDisabled, dataLoading, submitLabel, pendingSends,
                   controlsHidden, successHidden, submitErrorCount, submitErrorText,
                   formActions, unhandled,
                   accVars, navVars, auxVars>>

\* The form is submitted. The browser raises submit only through the
\* enabled submit control: by a click on it, or, with focus in a field, by
\* Enter, which is ignored while the form's submit control is disabled.
SubmitForm ==
    /\ ~submitDisabled /\ ~controlsHidden
    /\ \E r \in {SubmitListener(ErrorState, value, focus, Button, pendingSends)} :
          /\ ariaInvalid' = r.es.invalid
          /\ errorText' = r.es.text
          /\ groupError' = r.es.group
          /\ focus' = r.focus
          /\ dataLoading' = r.button.dataLoading
          /\ submitDisabled' = r.button.disabled
          /\ submitLabel' = r.button.label
          /\ pendingSends' = r.pending
          /\ corrected' = corrected \ {r.all.order[i] : i \in 1..Len(r.all.order)}
          /\ last' = [Step("submit", "none") EXCEPT !.errors = r.all.errors,
                         !.order = r.all.order, !.valid = r.all.valid,
                         !.prevented = r.prevented]
    /\ UNCHANGED <<value, controlsHidden, successHidden, submitErrorCount,
                   submitErrorText, formActions, unhandled,
                   accVars, navVars, auxVars>>

\* An outstanding send completes: the listener resumes with showSuccess().
SendResolves ==
    /\ pendingSends > 0
    /\ pendingSends' = pendingSends - 1
    /\ LET r == ShowSuccess(ErrorState, value, focus)
       IN /\ ariaInvalid' = r.es.invalid
          /\ errorText' = r.es.text
          /\ groupError' = r.es.group
          /\ controlsHidden' = r.controlsHidden
          /\ successHidden' = r.successHidden
          /\ focus' = r.focus
    /\ corrected' = corrected \ {focus}
    /\ last' = Step("resolve", "none")
    /\ UNCHANGED <<value, submitDisabled, dataLoading, submitLabel,
                   submitErrorCount, submitErrorText, formActions, unhandled,
                   accVars, navVars, auxVars>>

\* An outstanding send fails: the listener resumes in its catch block.
\* simulateSend() itself never rejects; this is the path of the request
\* that is to replace it.
SendRejects ==
    /\ pendingSends > 0
    /\ pendingSends' = pendingSends - 1
    /\ IF ShowSubmitErrorThrows(submitErrorCount, formActions)
       THEN /\ unhandled' = TRUE
            /\ UNCHANGED <<submitErrorCount, submitErrorText, dataLoading,
                           submitDisabled, submitLabel>>
       ELSE /\ LET e == ShowSubmitError(submitErrorCount, SubmitErrorMessage)
                   b == SetSubmitLoading(FALSE)
               IN /\ submitErrorCount' = e.count
                  /\ submitErrorText' = e.text
                  /\ dataLoading' = b.dataLoading
                  /\ submitDisabled' = b.disabled
                  /\ submitLabel' = b.label
            /\ UNCHANGED unhandled
    /\ last' = [Step("reject", "none") EXCEPT !.reused = submitErrorCount > 0]
    /\ UNCHANGED <<value, ariaInvalid, errorText, groupError, focus, controlsHidden,
                   successHidden, corrected, formActions, accVars, navVars, auxVars>>

\* The form as initContactForm finds it: empty fields, no error shown,
\* the submit control idle, the success element hidden.
InitForm ==
    /\ value = [f \in FieldSet |-> <<>>]
    /\ ariaInvalid = [f \in FieldSet |-> FALSE]
    /\ errorText = [f \in FieldSet |-> ""]
    /\ groupError = [f \in FieldSet |-> FALSE]
    /\ focus = "body"
    /\ submitDisabled = FALSE
    /\ dataLoading = "absent"
    /\ submitLabel = IdleLabel
    /\ pendingSends = 0
    /\ controlsHidden = FALSE
    /\ successHidden = TRUE
    /\ submitErrorCount = 0
    /\ submitErrorText = ""
    /\ corrected = {}
    /\ last = Step("init", "none")
    /\ unhandled = FALSE
    /\ formActions = TRUE

\* The same form on a page that may lack the .form-actions wrapper (the
\* submit control is then a direct child of the form).
InitFormAnyActions ==
    /\ value = [f \in FieldSet |-> <<>>]
    /\ ariaInvalid = [f \in FieldSet |-> FALSE]
    /\ errorText = [f \in FieldSet |-> ""]
    /\ groupError = [f \in FieldSet |-> FALSE]
    /\ focus = "body"
    /\ submitDisabled = FALSE
    /\ dataLoading = "absent"
    /\ submitLabel = IdleLabel
    /\ pendingSends = 0
    /\ controlsHidden = FALSE
    /\ successHidden = TRUE
    /\ submitErrorCount = 0
    /\ submitErrorText = ""
    /\ corrected = {}
    /\ last = Step("init", "none")
    /\ unhandled = FALSE
    /\ formActions \in BOOLEAN

NextForm ==
    \/ \E f \in FieldSet : \E t \in FieldSet \cup {"submit", "body"} : LeaveField(f, t)
    \/ \E t \in FieldSet \cup {"submit", "body"} : FocusElement(t)
    \/ \E f \in FieldSet : \E v \in Inputs(f) : InputField(f, v)
    \/ SubmitForm
    \/ SendResolves
    \/ SendRejects

(***************************************************************************)
(* 1. SMOOTH SCROLL and 3. MOBILE NAV                                      *)
(*                                                                         *)
(* Both modules listen for click on the document and both move focus, so  *)
(* they are one state machine.  The page has the toggle button, the nav   *)
(* element with .nav-link anchors and other content in it, anchors        *)
(* outside the nav, and the targets the anchors point to.  An element is  *)
(* a record: kind, whether nav contains it, and a number (an anchor's     *)
(* href: 0 for "#", t for "#<id of target t>", NumTargets + 1 for an id   *)
(* no element carries; a target's own number).                            *)
(***************************************************************************)
Targets == 1..NumTargets
Hrefs == 0..(NumTargets + 1)

Toggle == [kind |-> "toggle", nav |-> FALSE, n |-> 0]
Menu == [kind |-> "menu", nav |-> TRUE, n |-> 0]
Body == [kind |-> "body", nav |-> FALSE, n |-> 0]
Link(inNav, h) == [kind |-> "link", nav |-> inNav, n |-> h]
Target(t) == [kind |-> "target", nav |-> FALSE, n |-> t]

Links == {Link(b, h) : b \in BOOLEAN, h \in Hrefs}
Elements == {Toggle, Menu, Body} \cup Links \cup {Target(t) : t \in Targets}

\* Targets with an even number are focusable by the markup (they carry a
\* tabindex attribute or are a control); those with an odd number are not.
NativeFocusable(t) == t % 2 = 0

\* const isOpen = () => nav.classList.contains('is-open')
IsOpen(n) == n.open

OpenNav == [open |-> TRUE, expanded |-> "true", label |-> "Close navigation menu"]

CloseNav == [open |-> FALSE, expanded |-> "false", label |-> "Open navigation menu"]

\* toggle.addEventListener('click', () => isOpen() ? closeNav() : openNav())
ToggleListener(n) == IF IsOpen(n) THEN CloseNav ELSE OpenNav

\* qsa('.nav-link', nav).forEach(link => link.addEventListener('click', closeNav))
NavLinkListener(n) == CloseNav

DocumentClickListenerIgnoresToggle(n, el) ==
    IF IsOpen(n) /\ ~el.nav THEN CloseNav ELSE n

\* document click: if (isOpen() && !nav.contains(e.target) &&
\*                     !toggle.contains(e.target)) closeNav()
DocumentClickListener(n, el) ==
    IF IsOpen(n) /\ ~el.nav /\ el # Toggle THEN CloseNav ELSE n

BlurKeepsTabindex(s, el) == s

\* The blur event of element el: a target with the once-only listener loses
\* the tabindex the script set, and the listener is gone.
Blur(s, el) ==
    IF el.kind = "target" /\ s.cleanup[el.n]
    THEN [s EXCEPT !.tabindex[el.n] = FALSE, !.cleanup[el.n] = FALSE]
    ELSE s

\* el.focus(): the element that had focus gets blur, then el has focus.
FocusOn(s, el) ==
    IF s.focus = el THEN s ELSE [Blur(s, s.focus) EXCEPT !.focus = el]

\* target.matches('a, button, input, textarea, select, [tabindex]')
Matches(s, t) == NativeFocusable(t) \/ s.tabindex[t]

\* The document click listener of initSmoothScroll on a click at el.
SmoothScrollListener(s, el) ==
    IF el.kind # "link" THEN s
    ELSE IF el.n = 0 THEN s
    ELSE IF el.n \notin Targets THEN s
    ELSE LET p == [s EXCEPT !.prevented = TRUE, !.scrolled = el.n]
         IN  IF Matches(p, el.n) THEN p
             ELSE [FocusOn([p EXCEPT !.tabindex[el.n] = TRUE], Target(el.n))
                      EXCEPT !.cleanup[el.n] = TRUE]

NavNow == [open |-> navOpen, expanded |-> toggleExpanded, label |-> toggleLabel]

ScrollNow == [focus |-> pageFocus, tabindex |-> tabindexAdded, cleanup |-> blurCleanup,
              scrolled |-> scrolledTo, prevented |-> FALSE]

SetMenu(n, s, ev) ==
    /\ navOpen' = n.open
    /\ toggleExpanded' = n.expanded
    /\ toggleLabel' = n.label
    /\ pageFocus' = s.focus
    /\ tabindexAdded' = s.tabindex
    /\ blurCleanup' = s.cleanup
    /\ scrolledTo' = s.scrolled
    /\ menuLast' = ev

\* A click at el: el's own listeners, then the document's in the order the
\* modules registered them.
Click(el) ==
    LET n1 == IF el = Toggle THEN ToggleListener(NavNow)
              ELSE IF el.kind = "link" /\ el.nav THEN NavLinkListener(NavNow)
              ELSE NavNow
        s1 == SmoothScrollListener(ScrollNow, el)
        n2 == DocumentClickListener(n1, el)
    IN  /\ SetMenu(n2, s1, [ev |-> "click", el |-> el, key |-> "",
                            prevented |-> s1.prevented, wasOpen |-> navOpen])
        /\ UNCHANGED <<coreVars, filterVars, pageVars, resizeVars, ruleVars, copyVars>>

Keys == {"Escape", "Enter"}

\* document keydown: if (e.key === 'Escape' && isOpen()) { closeNav(); toggle.focus() }
Keydown(key) ==
    LET hit == key = "Escape" /\ IsOpen(NavNow)
        n1 == IF hit THEN CloseNav ELSE NavNow
        s1 == IF hit THEN FocusOn(ScrollNow, Toggle) ELSE ScrollNow
    IN  /\ SetMenu(n1, s1, [ev |-> "key", el |-> Body, key |-> key,
                            prevented |-> FALSE, wasOpen |-> navOpen])
        /\ UNCHANGED <<coreVars, filterVars, pageVars, resizeVars, ruleVars, copyVars>>

\* The elements the user can put focus on: a target only while it is
\* focusable.
Focusable(s) ==
    {Toggle, Body} \cup Links \cup {Target(t) : t \in {u \in Targets : Matches(s, u)}}

\* The user moves focus to another element (Tab, or pressing the pointer).
MoveFocus(el) ==
    /\ el \in Focusable(ScrollNow)
    /\ el # pageFocus
    /\ SetMenu(NavNow, FocusOn(ScrollNow, el),
               [ev |-> "focus", el |-> el, key |-> "", prevented |-> FALSE,
                wasOpen |-> navOpen])
    /\ UNCHANGED <<coreVars, filterVars, pageVars, resizeVars, ruleVars, copyVars>>

IdleMenu ==
    /\ navOpen = FALSE
    /\ toggleExpanded = "false"
    /\ toggleLabel = "Open navigation menu"
    /\ pageFocus = Body
    /\ tabindexAdded = [t \in Targets |-> FALSE]
    /\ blurCleanup = [t \in Targets |-> FALSE]
    /\ scrolledTo = 0
    /\ menuLast = [ev |-> "init", el |-> Body, key |-> "", prevented |-> FALSE,
                   wasOpen |-> FALSE]

NextMenu ==
    \/ \E el \in Elements : Click(el)
    \/ \E key \in Keys : Keydown(key)
    \/ \E el \in Elements : MoveFocus(el)

(***************************************************************************)
(* 4. SKILL FILTER                                                         *)
(*                                                                         *)
(* The page is complete: the .skills-filters group holds the filter       *)
(* buttons, the skill items and the #skills-empty element exist.  Button  *)
(* 1 carries data-filter="all" (AllFilter); button b > 1 carries category *)
(* b - 1.  Every item carries one of the categories, and the category of  *)
(* the last button is carried by no item.                                 *)
(***************************************************************************)
AllFilter == 0

FilterBtns == 1..NumFilters
SkillItems == 1..NumItems

\* btn.getAttribute('data-filter')
DataFilter(b) == b - 1

\* item.getAttribute('data-category')
DataCategory(i) == 1 + (i % (NumFilters - 2))

ApplyFilterNoSpecialAll(activeFilter) ==
    LET matches(i) == DataCategory(i) = activeFilter
    IN  [hidden |-> [i \in SkillItems |-> ~matches(i)],
         emptyHidden |-> Cardinality({i \in SkillItems : matches(i)}) > 0]

\* applyFilter(activeFilter): the data-hidden attribute of every item and
\* the hidden property of the empty state.
ApplyFilter(activeFilter) ==
    LET matches(i) == activeFilter = AllFilter \/ DataCategory(i) = activeFilter
        visibleCount == Cardinality({i \in SkillItems : matches(i)})
    IN  [hidden |-> [i \in SkillItems |-> ~matches(i)],
         emptyHidden |-> visibleCount > 0]

SetActiveBtnKeepsOthers(pressed, activeBtn) ==
    [b \in FilterBtns |-> pressed[b] \/ b = activeBtn]

\* setActiveBtn(activeBtn): aria-pressed and filter-btn--active of every button.
SetActiveBtn(pressed, activeBtn) ==
    [b \in FilterBtns |-> b = activeBtn]

FilterKeys == {"ArrowRight", "ArrowDown", "ArrowLeft", "ArrowUp", "Home", "End", "Tab"}

RovingKeys == FilterKeys \ {"Tab"}

KeydownListenerNoWrap(key, foc) ==
    IF foc \notin FilterBtns THEN [focus |-> foc, prevented |-> FALSE]
    ELSE IF key \in {"ArrowRight", "ArrowDown"}
         THEN [focus |-> IF foc = NumFilters THEN foc ELSE foc + 1, prevented |-> TRUE]
    ELSE IF key \in {"ArrowLeft", "ArrowUp"}
         THEN [focus |-> IF foc = 1 THEN foc ELSE foc - 1, prevented |-> TRUE]
    ELSE IF key = "Home" THEN [focus |-> 1, prevented |-> TRUE]
    ELSE IF key = "End" THEN [focus |-> NumFilters, prevented |-> TRUE]
    ELSE [focus |-> foc, prevented |-> FALSE]

\* The keydown listener of the filter group, focus being on foc (a button,
\* or 0 for an element that is not a filter button): the element that has
\* focus afterwards, and whether the default was prevented.  idx is foc - 1.
KeydownListener(key, foc) ==
    IF foc \notin FilterBtns THEN [focus |-> foc, prevented |-> FALSE]
    ELSE LET idx == foc - 1
             n == NumFilters
         IN  IF key \in {"ArrowRight", "ArrowDown"}
             THEN [focus |-> ((idx + 1) % n) + 1, prevented |-> TRUE]
             ELSE IF key \in {"ArrowLeft", "ArrowUp"}
             THEN [focus |-> ((idx - 1 + n) % n) + 1, prevented |-> TRUE]
             ELSE IF key = "Home" THEN [focus |-> 1, prevented |-> TRUE]
             ELSE IF key = "End" THEN [focus |-> (n - 1) + 1, prevented |-> TRUE]
             ELSE [focus |-> foc, prevented |-> FALSE]

\* A click on filter button b (pointer, or Enter/Space on the focused
\* button).  A pointer click gives the button focus in most browsers and
\* leaves focus where it was in the others.
ClickFilter(b, foc) ==
    /\ foc \in {filterFocus, b}
    /\ LET r == ApplyFilter(DataFilter(b))
       IN  /\ ariaPressed' = SetActiveBtn(ariaPressed, b)
           /\ btnActive' = SetActiveBtn(btnActive, b)
           /\ dataHidden' = r.hidden
           /\ emptyHidden' = r.emptyHidden
    /\ filterFocus' = foc
    /\ filterLast' = [ev |-> "click", key |-> "", from |-> filterFocus,
                      prevented |-> FALSE, clicked |-> b]
    /\ UNCHANGED <<coreVars, menuVars, pageVars, resizeVars, ruleVars, copyVars>>

\* A key goes down while focus is on filter button filterFocus or outside
\* the group (0).
FilterKeydown(key) ==
    LET r == KeydownListener(key, filterFocus)
    IN  /\ filterFocus' = r.focus
        /\ filterLast' = [filterLast EXCEPT !.ev = "key", !.key = key,
                              !.from = filterFocus, !.prevented = r.prevented]
        /\ UNCHANGED <<ariaPressed, btnActive, dataHidden, emptyHidden>>
        /\ UNCHANGED <<coreVars, menuVars, pageVars, resizeVars, ruleVars, copyVars>>

\* The user moves focus to filter button t, or away from the buttons (0).
FocusFilter(t) ==
    /\ t # filterFocus
    /\ filterFocus' = t
    /\ filterLast' = [filterLast EXCEPT !.ev = "focus", !.key = "",
                          !.from = filterFocus, !.prevented = FALSE]
    /\ UNCHANGED <<ariaPressed, btnActive, dataHidden, emptyHidden>>
    /\ UNCHANGED <<coreVars, menuVars, pageVars, resizeVars, ruleVars, copyVars>>

\* The markup may mark any of the buttons as pressed; every item is shown.
InitFilter ==
    /\ ariaPressed \in [FilterBtns -> BOOLEAN]
    /\ btnActive = ariaPressed
    /\ dataHidden = [i \in SkillItems |-> FALSE]
    /\ emptyHidden = TRUE
    /\ filterFocus = 0
    /\ filterLast = [ev |-> "init", key |-> "", from |-> 0, prevented |-> FALSE,
                     clicked |-> 0]

IdleFilter ==
    /\ ariaPressed = [b \in FilterBtns |-> b = 1]
    /\ btnActive = ariaPressed
    /\ dataHidden = [i \in SkillItems |-> FALSE]
    /\ emptyHidden = TRUE
    /\ filterFocus = 0
    /\ filterLast = [ev |-> "init", key |-> "", from |-> 0, prevented |-> FALSE,
                     clicked |-> 0]

NextFilter ==
    \/ \E b \in FilterBtns : \E foc \in FilterBtns \cup {0} : ClickFilter(b, foc)
    \/ \E key \in FilterKeys : FilterKeydown(key)
    \/ \E t \in FilterBtns \cup {0} : FocusFilter(t)

(***************************************************************************)
(* INIT: the DOMContentLoaded listener on a page that may lack elements    *)
(*                                                                         *)
(* present is the set of element kinds the markup has.  Each init function *)
(* either registers its listeners, returns without doing anything, or      *)
(* throws; a throw ends the DOMContentLoaded listener, so the init         *)
(* functions after it are never called.                                    *)
(***************************************************************************)
PageElements ==
    {"navLinks", "sections", "toggle", "nav", "filterBtns", "skillItems",
     "detailsEls", "form", "submitBtn", "successEl"}

Modules ==
    <<"initSmoothScroll", "initNavHighlight", "initMobileNav", "initSkillFilter",
      "initExperience", "initContactForm">>

ModuleSet == {Modules[i] : i \in 1..Len(Modules)}

\* Without its guard initMobileNav calls addEventListener on a null toggle,
\* or querySelectorAll on a null nav, and throws.
InitMobileNavNoGuard(p) ==
    IF "toggle" \in p /\ "nav" \in p THEN "registered" ELSE "threw"

\* document.addEventListener('click', ...): nothing is required.
InitSmoothScroll(p) == "registered"

\* if (!navLinks.length || !sections.length) return
InitNavHighlight(p) ==
    IF "navLinks" \notin p \/ "sections" \notin p THEN "returned" ELSE "registered"

\* if (!toggle || !nav) return
InitMobileNav(p) ==
    IF "toggle" \notin p \/ "nav" \notin p THEN "returned" ELSE "registered"

\* if (!filterBtns.length || !skillItems.length) return
InitSkillFilter(p) ==
    IF "filterBtns" \notin p \/ "skillItems" \notin p THEN "returned" ELSE "registered"

\* if (!detailsEls.length) return
InitExperience(p) ==
    IF "detailsEls" \notin p THEN "returned" ELSE "registered"

\* if (!form || !submitBtn || !successEl) return
InitContactForm(p) ==
    IF "form" \notin p \/ "submitBtn" \notin p \/ "successEl" \notin p
    THEN "returned" ELSE "registered"

InitOf(m, p) ==
    CASE m = "initSmoothScroll" -> InitSmoothScroll(p)
      [] m = "initNavHighlight" -> InitNavHighlight(p)
      [] m = "initMobileNav" -> InitMobileNav(p)
      [] m = "initSkillFilter" -> InitSkillFilter(p)
      [] m = "initExperience" -> InitExperience(p)
      [] m = "initContactForm" -> InitContactForm(p)

\* The modules called before anything threw, in the listener's order.
Called(p) ==
    {Modules[i] : i \in {k \in 1..Len(Modules) :
                            \A j \in 1..(k - 1) : InitOf(Modules[j], p) # "threw"}}

\* The DOMContentLoaded listener.
DOMContentLoaded ==
    /\ ~ready
    /\ ready' = TRUE
    /\ registered' = {m \in Called(present) : InitOf(m, present) = "registered"}
    /\ initThrew' = (\E m \in Called(present) : InitOf(m, present) = "threw")
    /\ UNCHANGED <<present, changed>>
    /\ UNCHANGED <<coreVars, menuVars, filterVars, resizeVars, ruleVars, copyVars>>

\* An event reaches a listener of module m and the listener changes the
\* module's state; only a module that registered listeners has any.
ModuleEvent(m) ==
    /\ ready
    /\ m \in registered
    /\ m \notin changed
    /\ changed' = changed \cup {m}
    /\ UNCHANGED <<present, ready, registered, initThrew>>
    /\ UNCHANGED <<coreVars, menuVars, filterVars, resizeVars, ruleVars, copyVars>>

InitPage ==
    /\ present \in SUBSET PageElements
    /\ ready = FALSE
    /\ registered = {}
    /\ changed = {}
    /\ initThrew = FALSE

\* The complete page after its DOMContentLoaded listener has run.
IdlePage ==
    /\ present = PageElements
    /\ ready = TRUE
    /\ registered = ModuleSet
    /\ changed = {}
    /\ initThrew = FALSE

NextPage ==
    \/ DOMContentLoaded
    \/ \E m \in ModuleSet : ModuleEvent(m)

(***************************************************************************)
(* DEBOUNCE and the resize listener of initNavHighlight                    *)
(*                                                                         *)
(* Time is in milliseconds and advances in steps of at most Quantum.  A   *)
(* timer runs as soon as its delay has elapsed: time does not advance and *)
(* no later event is dispatched while a timer is due.  observe() queues   *)
(* an initial entry for the section, which the observer delivers later;   *)
(* disconnect() drops what is queued.                                     *)
(***************************************************************************)
DebounceWait == 200

Least(S) == CHOOSE x \in S : \A y \in S : x <= y

DebounceKeepsTimer(pending) == pending \cup {DebounceWait}

\* The function debounce returns, called once: clearTimeout(timer) removes
\* the timeout the previous call set (the only one there can be), and
\* setTimeout(..., wait) sets a new one.  pending holds the remaining delay
\* of every timeout that is set.
Debounce(pending) == (pending \ {Least(pending \cup {DebounceWait})}) \cup {DebounceWait}

\* () => { observer.disconnect(); sections.forEach(s => observer.observe(s)) }
Resubscribe == [observed |-> Sections, queued |-> Sections]

\* A resize event: the debounced listener is called.
Resize ==
    /\ 0 \notin timers
    /\ LET newBurst == burstEvents = 0 \/ elapsed >= DebounceWait
       IN  /\ burstEvents' = IF newBurst THEN 1
                             ELSE IF burstEvents < MaxBurst THEN burstEvents + 1
                             ELSE burstEvents
           /\ burstFires' = IF newBurst THEN 0 ELSE burstFires
    /\ timers' = Debounce(timers)
    /\ elapsed' = 0
    /\ resizeLast' = "resize"
    /\ UNCHANGED <<observed, queuedEntries>>
    /\ UNCHANGED <<coreVars, menuVars, filterVars, pageVars, ruleVars, copyVars>>

\* Time passes, up to the moment the next timer is due.
Tick ==
    /\ 0 \notin timers
    /\ timers # {} \/ elapsed < DebounceWait
    /\ LET d == Least(({Quantum} \cup timers \cup {DebounceWait - elapsed}) \ {0})
       IN  /\ timers' = {t - d : t \in timers}
           /\ elapsed' = IF elapsed + d > DebounceWait THEN DebounceWait ELSE elapsed + d
    /\ resizeLast' = "tick"
    /\ UNCHANGED <<burstEvents, burstFires, observed, queuedEntries>>
    /\ UNCHANGED <<coreVars, menuVars, filterVars, pageVars, ruleVars, copyVars>>

\* A due timer runs the debounced function.
TimerFires ==
    /\ 0 \in timers
    /\ timers' = timers \ {0}
    /\ observed' = Resubscribe.observed
    /\ queuedEntries' = Resubscribe.queued
    /\ burstFires' = IF burstFires < 2 THEN burstFires + 1 ELSE burstFires
    /\ resizeLast' = "timer"
    /\ UNCHANGED <<elapsed, burstEvents>>
    /\ UNCHANGED <<coreVars, menuVars, filterVars, pageVars, ruleVars, copyVars>>

\* The observer delivers queued entries to its callback (the callback's
\* effect on the nav links is the ObserverCallback action of SpecNav).
Deliver(S) ==
    /\ 0 \notin timers
    /\ S # {} /\ S \subseteq queuedEntries
    /\ queuedEntries' = queuedEntries \ S
    /\ resizeLast' = "deliver"
    /\ UNCHANGED <<timers, elapsed, burstEvents, burstFires, observed>>
    /\ UNCHANGED <<coreVars, menuVars, filterVars, pageVars, ruleVars, copyVars>>

\* After initNavHighlight: every section observed, its initial entry
\* queued, no resize yet.
InitResize ==
    /\ timers = {}
    /\ elapsed = DebounceWait
    /\ burstEvents = 0
    /\ burstFires = 0
    /\ observed = Sections
    /\ queuedEntries = Sections
    /\ resizeLast = "init"

NextResize ==
    \/ Resize
    \/ Tick
    \/ TimerFires
    \/ \E S \in SUBSET Sections : Deliver(S)

(***************************************************************************)
(* The email rule as a function of its argument                            *)
(*                                                                         *)
(* The argument is any string of at most MaxEmailLen characters over a    *)
(* letter, ".", "@" and the space; the one step applies the rule to it.   *)
(***************************************************************************)
EmailChars == {"a", ".", "@", " "}

RECURSIVE StringsUpTo(_)
StringsUpTo(n) ==
    IF n = 0 THEN {<<>>}
    ELSE LET shorter == StringsUpTo(n - 1)
         IN  shorter \cup {Append(s, c) : s \in {x \in shorter : Len(x) = n - 1},
                                          c \in EmailChars}

\* validators.email.validate(val), val being the field's value.
ApplyEmailRule ==
    /\ emailResult = "unset"
    /\ emailResult' = ValidateEmail(emailArg)
    /\ UNCHANGED emailArg
    /\ UNCHANGED <<coreVars, menuVars, filterVars, pageVars, resizeVars, copyVars>>

InitRule ==
    /\ emailArg \in StringsUpTo(MaxEmailLen)
    /\ emailResult = "unset"

IdleRule ==
    /\ emailArg = <<>>
    /\ emailResult = "unset"

NextRule == ApplyEmailRule

(***************************************************************************)
(* 6. COPY EMAIL TO CLIPBOARD (the variant of script.js that has           *)
(* initCopyEmail in place of initContactForm)                              *)
(*                                                                         *)
(* The page has #copy-email-btn with a data-email and #copy-confirm,      *)
(* hidden in the markup.  navigator.clipboard.writeText is asynchronous:  *)
(* copyEmail resumes when the write settles, and several writes can be    *)
(* outstanding.  Time is in milliseconds, as for the resize listener, and *)
(* advances only while a reset timer is pending.                          *)
(***************************************************************************)
ResetDelay == 2000

ShowConfirmKeepsTimer(pending) ==
    [isCopied |-> TRUE, confirmHidden |-> FALSE, timers |-> pending \cup {ResetDelay}]

\* showConfirm(): the mark and the confirmation are shown, clearTimeout
\* removes the timeout the previous call set (the only one there can be),
\* setTimeout sets a new one.
ShowConfirm(pending) ==
    [isCopied |-> TRUE, confirmHidden |-> FALSE,
     timers |-> (pending \ {Least(pending \cup {ResetDelay})}) \cup {ResetDelay}]

\* A click on the button, or Enter or Space on it (the keydown listener
\* prevents the default, so the key causes no click of its own):
\* copyEmail() starts a clipboard write.
CopyEmail ==
    /\ 0 \notin resetTimers
    /\ copies < MaxCopies
    /\ copies' = copies + 1
    /\ writesPending' = writesPending + 1
    /\ copyLast' = "copy"
    /\ UNCHANGED <<isCopied, confirmHidden, resetTimers, sinceConfirm>>
    /\ UNCHANGED <<coreVars, menuVars, filterVars, pageVars, resizeVars, ruleVars>>

\* An outstanding write settles.  Resolved, copyEmail calls showConfirm();
\* rejected, its catch block copies through a textarea and execCommand and
\* calls showConfirm() as well.
WriteSettles(outcome) ==
    /\ 0 \notin resetTimers
    /\ writesPending > 0
    /\ writesPending' = writesPending - 1
    /\ LET r == ShowConfirm(resetTimers)
       IN  /\ isCopied' = r.isCopied
           /\ confirmHidden' = r.confirmHidden
           /\ resetTimers' = r.timers
    /\ sinceConfirm' = 0
    /\ copyLast' = outcome
    /\ UNCHANGED copies
    /\ UNCHANGED <<coreVars, menuVars, filterVars, pageVars, resizeVars, ruleVars>>

\* Time passes, up to the moment the next reset timer is due.
CopyTick ==
    /\ resetTimers # {}
    /\ 0 \notin resetTimers
    /\ LET d == Least({Quantum} \cup resetTimers)
       IN  /\ resetTimers' = {t - d : t \in resetTimers}
           /\ sinceConfirm' = IF sinceConfirm + d > ResetDelay THEN ResetDelay
                              ELSE sinceConfirm + d
    /\ copyLast' = "tick"
    /\ UNCHANGED <<isCopied, confirmHidden, writesPending, copies>>
    /\ UNCHANGED <<coreVars, menuVars, filterVars, pageVars, resizeVars, ruleVars>>

\* A due reset timer runs: the mark is removed, the confirmation hidden.
ResetFires ==
    /\ 0 \in resetTimers
    /\ resetTimers' = resetTimers \ {0}
    /\ isCopied' = FALSE
    /\ confirmHidden' = TRUE
    /\ copyLast' = "reset"
    /\ UNCHANGED <<writesPending, copies, sinceConfirm>>
    /\ UNCHANGED <<coreVars, menuVars, filterVars, pageVars, resizeVars, ruleVars>>

InitCopy ==
    /\ isCopied = FALSE
    /\ confirmHidden = TRUE
    /\ resetTimers = {}
    /\ sinceConfirm = ResetDelay
    /\ writesPending = 0
    /\ copies = 0
    /\ copyLast = "init"

NextCopy ==
    \/ CopyEmail
    \/ \E outcome \in {"resolved", "rejected"} : WriteSettles(outcome)
    \/ CopyTick
    \/ ResetFires

(***************************************************************************)
(* Specifications                                                          *)
(***************************************************************************)
IdleLate == IdleRule /\ InitCopy
IdleAux == IdleMenu /\ IdleFilter /\ IdlePage /\ InitResize /\ IdleLate

InitAccordionPage == InitAccordion /\ IdleNav /\ InitForm /\ IdleAux
InitNavPage == InitNav /\ IdleAccordion /\ InitForm /\ IdleAux
InitFormPage == InitForm /\ IdleAccordion /\ IdleNav /\ IdleAux
InitMenuPage == IdleMenu /\ IdleAccordion /\ IdleNav /\ InitForm /\ IdleFilter /\ IdlePage /\ InitResize /\ IdleLate
InitFormAnyActionsPage == InitFormAnyActions /\ IdleAccordion /\ IdleNav /\ IdleAux
InitFilterPage == InitFilter /\ IdleAccordion /\ IdleNav /\ InitForm /\ IdleMenu /\ IdlePage /\ InitResize /\ IdleLate
InitAnyPage == InitPage /\ IdleAccordion /\ IdleNav /\ InitForm /\ IdleMenu /\ IdleFilter /\ InitResize /\ IdleLate
InitRulePage == InitRule /\ IdleAccordion /\ IdleNav /\ InitForm /\ IdleMenu /\ IdleFilter /\ IdlePage /\ InitResize /\ InitCopy
InitCopyPage == InitCopy /\ IdleAccordion /\ IdleNav /\ InitForm /\ IdleMenu /\ IdleFilter /\ IdlePage /\ InitResize /\ IdleRule
InitResizePage == InitResize /\ IdleAccordion /\ IdleNav /\ InitForm /\ IdleMenu /\ IdleFilter /\ IdlePage /\ IdleLate

SpecAccordion == InitAccordionPage /\ [][NextAccordion]_vars
SpecNav == InitNavPage /\ [][NextNav]_vars
SpecForm == InitFormPage /\ [][NextForm]_vars
SpecFormAnyActions == InitFormAnyActionsPage /\ [][NextForm]_vars
SpecMenu == InitMenuPage /\ [][NextMenu]_vars
SpecFilter == InitFilterPage /\ [][NextFilter]_vars
SpecPage == InitAnyPage /\ [][NextPage]_vars
SpecResize == InitResizePage /\ [][NextResize]_vars
SpecRule == InitRulePage /\ [][NextRule]_vars

\* Time passes while a timer is pending, and a due timer runs: the event
\* loop does both without the user doing anything.
SpecCopy ==
    InitCopyPage /\ [][NextCopy]_vars /\ WF_vars(CopyTick) /\ WF_vars(ResetFires)

(***************************************************************************)
(* Claims about the accordion (SpecAccordion)                              *)
(***************************************************************************)
AtMostOneOpen == Cardinality(OpenSet(open)) <= 1

\* C1 (as stated): in every reachable state at most one entry is open, and
\* once an open entry's toggle event has been handled that entry is the
\* only open one.
C1_AtMostOneOpenAlways ==
    /\ AtMostOneOpen
    /\ (handled # 0 /\ open[handled]) => OpenSet(open) = {handled}

\* C1 (amended): whenever no toggle event is waiting to be dispatched at
\* most one entry is open, and once the toggle event of a still-open entry
\* B has been handled, B is open and every other entry is closed.
C1_OneOpenOnceTogglesHandled ==
    /\ toggleQueue = <<>> => AtMostOneOpen
    /\ (handled # 0 /\ open[handled]) => OpenSet(open) = {handled}

\* C1 witness: entry 2's toggle has just been handled with entry 2 open;
\* entry 1, whose summary still says expanded, was closed by it and its own
\* toggle event is now queued.
C1_Witness ==
    /\ handled = 2 /\ open[2]
    /\ ~open[1] /\ ariaExpanded[1]
    /\ toggleQueue = <<1>>

(***************************************************************************)
(* Claims about the section highlight (SpecNav)                            *)
(***************************************************************************)
MaxOf(rm) == CHOOSE m \in Ratios :
    /\ \E s \in Sections : rm[s] = m
    /\ \A s \in Sections : rm[s] <= m

Tied(rm) == {s \in Sections : rm[s] = MaxOf(rm)}

FirstOf(S) == CHOOSE s \in S : \A t \in S : s <= t

\* A tie: two or more sections share the maximal, non-zero ratio.
TieNow == MaxOf(ratioMap) > 0 /\ Cardinality(Tied(ratioMap)) >= 2

\* C9 (as stated): when an observer update leaves two or more sections
\* with equal, non-zero, maximal ratios and the previously active section
\* is one of them, the previously active section remains active.
C9_TieKeepsPreviousActive ==
    (TieNow /\ prevActiveId \in Tied(ratioMap)) => activeId = prevActiveId

\* C9 (amended): when an observer update leaves two or more sections with
\* equal, non-zero, maximal ratios, the active section is the first of them
\* in document order; the previously active section remains active only if
\* it is that first one.
C9_TieFirstInDocumentOrderWins ==
    TieNow => activeId = FirstOf(Tied(ratioMap))

\* C9 witness: a tie that includes the previously active section, which
\* loses the highlight to a tied section earlier in the document.
C9_Witness ==
    /\ TieNow
    /\ prevActiveId \in Tied(ratioMap)
    /\ prevActiveId # FirstOf(Tied(ratioMap))
    /\ activeId = FirstOf(Tied(ratioMap))

\* C10: whenever some section has a non-zero recorded ratio, the active
\* section is one whose recorded ratio is the maximum, and exactly the nav
\* links whose data-section is the active section carry is-active and
\* aria-current="true" (every other link aria-current="false").
C10_ActiveIsMostVisible ==
    MaxOf(ratioMap) > 0 =>
        /\ activeId \in Sections
        /\ ratioMap[activeId] = MaxOf(ratioMap)
        /\ \A k \in NavLinks :
            /\ linkClass[k] = (DataSection(k) = activeId)
            /\ ariaCurrent[k] = (IF DataSection(k) = activeId THEN "true" ELSE "false")

\* C10 witness: the highlight has moved from section 1 (two links) to
\* section 2, the most visible one, and only section 2's link is marked.
C10_Witness ==
    /\ prevActiveId = 1 /\ activeId = 2
    /\ ratioMap[2] = MaxRatio /\ ratioMap[1] > 0 /\ ratioMap[1] < MaxRatio
    /\ linkClass = [k \in NavLinks |-> k = 3]


(***************************************************************************)
(* Claims about the contact form (SpecForm)                                *)
(***************************************************************************)
\* The result of field f's rule on the field's current value.
RuleError(f) == Validate(f, value[f])

AllValid == \A f \in FieldSet : RuleError(f) = NoError

\* The first field, in document order, whose rule fails on its value.
FirstFailing ==
    Fields[CHOOSE i \in 1..Len(Fields) :
        /\ RuleError(Fields[i]) # NoError
        /\ \A j \in 1..(i - 1) : RuleError(Fields[j]) = NoError]

\* Field f displays exactly the error e (no error at all for NoError).
Shows(f, e) ==
    IF e # NoError
    THEN ariaInvalid[f] /\ errorText[f] = e /\ groupError[f]
    ELSE ~ariaInvalid[f] /\ errorText[f] = "" /\ ~groupError[f]

\* C2: after a submit with at least one invalid field the default
\* submission is cancelled, focus is on the first invalid field in document
\* order, no send is outstanding and the submit control is enabled, idle
\* and not in its loading state.
C2_InvalidSubmitBlocked ==
    (last.op = "submit" /\ ~AllValid) =>
        /\ last.prevented
        /\ focus = FirstFailing
        /\ pendingSends = 0
        /\ ~submitDisabled
        /\ dataLoading # "true"
        /\ submitLabel = IdleLabel

\* C2 witness: a submit with a valid name and invalid email and message
\* has put focus on the email field; nothing is being sent.
C2_Witness ==
    /\ last.op = "submit"
    /\ RuleError("name") = NoError
    /\ RuleError("email") # NoError
    /\ RuleError("message") # NoError
    /\ focus = "email"
    /\ pendingSends = 0

\* C3: after a submit with all three fields valid the submit control is
\* disabled and carries the busy label while the send it started is
\* outstanding; after the send has completed successfully the field groups
\* and the submit control are hidden and the success element is shown and
\* has focus.
C3_ValidSubmitThenSuccess ==
    /\ (last.op = "submit" /\ AllValid) =>
          /\ submitDisabled /\ submitLabel = BusyLabel /\ dataLoading = "true"
          /\ pendingSends = 1
    /\ last.op = "resolve" =>
          /\ controlsHidden /\ ~successHidden /\ focus = "success"

\* C3 witness: the send of a valid form has completed and the success
\* element is shown in place of the controls.
C3_Witness ==
    /\ last.op = "resolve"
    /\ AllValid
    /\ controlsHidden /\ ~successHidden /\ focus = "success"
    /\ submitDisabled /\ submitLabel = BusyLabel

\* C4: at most one send is outstanding at any time, and while one is
\* outstanding the submit control is disabled and no submit can occur.
C4_SingleOutstandingSend ==
    /\ pendingSends <= 1
    /\ pendingSends = 1 =>
          /\ submitDisabled /\ dataLoading = "true"
          /\ ~ENABLED SubmitForm

\* C4 witness: a send is outstanding and the user has since edited a field.
C4_Witness ==
    /\ pendingSends = 1
    /\ last.op = "input"
    /\ submitDisabled

\* C5: when a send fails there is exactly one #submit-error element and it
\* carries the message, the submit control is enabled again with its idle
\* label, and the values of the three fields are what they were.
C5_SendFailureShown ==
    [][last'.op = "reject" =>
          /\ submitErrorCount' = 1
          /\ submitErrorText' = SubmitErrorMessage
          /\ ~submitDisabled' /\ submitLabel' = IdleLabel /\ dataLoading' = "false"
          /\ value' = value]_vars

\* C5 witness: a second failure has reused the error element of the first;
\* the fields still hold the values that were submitted.
C5_Witness ==
    /\ last.op = "reject" /\ last.reused
    /\ submitErrorCount = 1
    /\ ~submitDisabled
    /\ AllValid

\* C6: validateAll() validates name, email, message in that order without
\* stopping at a failure, reports valid iff every field's rule passes, and
\* leaves every field displaying the result of its own rule.
C6_ValidateAllCoversEveryField ==
    last.op = "submit" =>
        /\ last.order = Fields
        /\ last.errors = [i \in 1..Len(Fields) |-> RuleError(Fields[i])]
        /\ last.valid = AllValid
        /\ \A f \in FieldSet : Shows(f, RuleError(f))

\* C6 witness: submitted with only the name empty, only the name field
\* shows an error.
C6_Witness ==
    /\ last.op = "submit"
    /\ value["name"] = <<>>
    /\ RuleError("email") = NoError /\ RuleError("message") = NoError
    /\ ~last.valid
    /\ ariaInvalid = [f \in FieldSet |-> f = "name"]
    /\ errorText["name"] = "Name is required."

\* C7: validateField on a field (run by its blur listener) returns the
\* rule's message for the field's value, or none; on a message the field is
\* marked invalid and shows it, on none mark and text are cleared; so the
\* field is marked invalid iff a message was returned.
C7_ValidateFieldMirrorsRule ==
    last.op = "blur" =>
        /\ last.errors = <<RuleError(last.field)>>
        /\ Shows(last.field, RuleError(last.field))
        /\ ariaInvalid[last.field] <=> (last.errors[1] # NoError)

\* C7 witness: the email field lost focus holding a malformed address and
\* is marked invalid with the pattern's message.
C7_Witness ==
    /\ last.op = "blur" /\ last.field = "email"
    /\ last.errors = <<"Please enter a valid email address.">>
    /\ ariaInvalid["email"]
    /\ errorText["email"] = "Please enter a valid email address."

\* An edit of a field that showed an error leaves that field without
\* error, whatever its new value, and every other field as it was.
EditClearsError ==
    (last'.op = "input" /\ ariaInvalid[last'.field]) =>
        /\ ~ariaInvalid'[last'.field]
        /\ errorText'[last'.field] = ""
        /\ ~groupError'[last'.field]
        /\ \A g \in FieldSet \ {last'.field} :
              /\ ariaInvalid'[g] = ariaInvalid[g]
              /\ errorText'[g] = errorText[g]
              /\ groupError'[g] = groupError[g]

\* Field f loses focus in this step.
LosesFocus(f) == focus = f /\ focus' # f

\* Field f, whose error an edit had cleared, is validated in this step.
ValidatedAgain(f) == f \in corrected /\ f \notin corrected'

\* C8 (as stated): an edit of a field showing an error clears that error
\* without validating and leaves the other fields alone, and the field is
\* validated again only in a step in which it loses focus.
C8_RevalidatedOnlyOnBlur ==
    [][/\ EditClearsError
       /\ \A f \in FieldSet : ValidatedAgain(f) => LosesFocus(f)]_vars

\* C8 (amended): an edit of a field showing an error clears that error
\* without validating and leaves the other fields alone, and the field is
\* validated again only in a step in which it loses focus or in which the
\* form is submitted; until then it shows no error.
C8_RevalidatedOnBlurOrSubmit ==
    [][/\ EditClearsError
       /\ \A f \in FieldSet :
             /\ ValidatedAgain(f) => (LosesFocus(f) \/ last'.op = "submit")
             /\ f \in corrected' => ~ariaInvalid'[f]]_vars

\* C8 witness: the name field showed an error and was edited to a value
\* its rule still rejects; its error is gone while the email field's stays.
C8_Witness ==
    /\ last.op = "input" /\ last.field = "name" /\ last.wasInvalid
    /\ RuleError("name") # NoError
    /\ ~ariaInvalid["name"] /\ errorText["name"] = ""
    /\ "name" \in corrected
    /\ ariaInvalid["email"]

(***************************************************************************)
(* Claims about the mobile nav and smooth scroll (SpecMenu)                *)
(***************************************************************************)
ClickOn(ev, el) == ev.ev = "click" /\ ev.el = el

\* C11: a click on the toggle flips the open flag; a click on a nav link, a
\* click outside both the menu and the toggle, and Escape while the menu is
\* open each leave the menu closed, and Escape while open also moves focus
\* to the toggle; a click inside the menu that is not on a nav link leaves
\* the open flag as it was.
C11_MenuOpenClose ==
    [][LET ev == menuLast'
       IN  /\ ClickOn(ev, Toggle) => navOpen' = ~navOpen
           /\ (ev.ev = "click" /\ ev.el.kind = "link" /\ ev.el.nav) => ~navOpen'
           /\ (ev.ev = "click" /\ ~ev.el.nav /\ ev.el # Toggle) => ~navOpen'
           /\ (ev.ev = "key" /\ ev.key = "Escape" /\ navOpen)
                  => ~navOpen' /\ pageFocus' = Toggle
           /\ ClickOn(ev, Menu) => navOpen' = navOpen
      ]_vars

\* The menu was open, Escape was pressed, and the menu is closed with focus
\* on the toggle.
C11_Witness ==
    /\ menuLast.ev = "key" /\ menuLast.key = "Escape" /\ menuLast.wasOpen
    /\ ~navOpen /\ toggleExpanded = "false" /\ pageFocus = Toggle

\* C20: a click on a same-page anchor whose target exists cancels the
\* default navigation and scrolls to the target, and a target that is not
\* natively focusable is then focusable and has focus; when focus leaves a
\* target the tabindex the script added is gone; a click on an anchor whose
\* target does not exist, or whose href is "#", is not cancelled and changes
\* nothing of the scroll state.
C20_SmoothScroll ==
    [][LET ev == menuLast'
       IN  /\ (ev.ev = "click" /\ ev.el.kind = "link" /\ ev.el.n \in Targets)
                  => /\ ev.prevented
                     /\ scrolledTo' = ev.el.n
                     /\ ~NativeFocusable(ev.el.n)
                            => /\ tabindexAdded'[ev.el.n]
                               /\ pageFocus' = Target(ev.el.n)
           /\ (ev.ev = "click" /\ ev.el.kind = "link" /\ ev.el.n \notin Targets)
                  => /\ ~ev.prevented
                     /\ UNCHANGED <<pageFocus, tabindexAdded, blurCleanup, scrolledTo>>
           /\ \A t \in Targets :
                  (pageFocus = Target(t) /\ pageFocus' # Target(t)) => ~tabindexAdded'[t]
      ]_vars

\* Target 1 (not natively focusable) was scrolled to and focused, focus has
\* since moved elsewhere, and the added tabindex and its listener are gone.
C20_Witness ==
    /\ scrolledTo = 1 /\ ~NativeFocusable(1)
    /\ menuLast.ev = "focus" /\ pageFocus # Target(1)
    /\ ~tabindexAdded[1] /\ ~blurCleanup[1]

(***************************************************************************)
(* Claims about the skill filter (SpecFilter)                              *)
(***************************************************************************)
ShownItems == {i \in SkillItems : ~dataHidden[i]}

ItemsOf(c) == IF c = AllFilter THEN SkillItems ELSE {i \in SkillItems : DataCategory(i) = c}

PressedBtns == {b \in FilterBtns : ariaPressed[b]}

\* C12: after a click on the control of category c the shown items are
\* exactly the items of category c (every item when c is "all"), and the
\* empty-state element is visible exactly when no item is shown.
C12_ClickShowsCategory ==
    filterLast.ev = "click"
        => /\ ShownItems = ItemsOf(DataFilter(filterLast.clicked))
           /\ (~emptyHidden) <=> (ShownItems = {})

\* The control of the category no item carries was clicked: nothing is
\* shown and the empty state is visible.
C12_Witness ==
    /\ filterLast.ev = "click" /\ filterLast.clicked = NumFilters
    /\ ShownItems = {} /\ ~emptyHidden

\* C13: once a filter control has been clicked, exactly one control has
\* pressed-state true, it is the most recently clicked one, and the shown
\* items are those of that control's category.
C13_OnePressedIsLastClicked ==
    filterLast.clicked # 0
        => /\ PressedBtns = {filterLast.clicked}
           /\ \A b \in FilterBtns : btnActive[b] = ariaPressed[b]
           /\ ShownItems = ItemsOf(DataFilter(filterLast.clicked))

\* Control 2 was the last one clicked, keys were pressed since, and some
\* but not all items are shown.
C13_Witness ==
    /\ filterLast.clicked = 2 /\ filterLast.ev = "key"
    /\ PressedBtns = {2}
    /\ ShownItems # {} /\ ShownItems # SkillItems

ExampleSubmitted ==
    /\ last.op = "submit"
    /\ value = [f \in FieldSet |->
                   CASE f = "name" -> Al [] f = "email" -> NotAnEmail [] f = "message" -> Short]

\* C14 (as stated): after submitting name "Al", email "not-an-email" and
\* message "short", all three fields show an error, the three messages are
\* pairwise distinct, no send was started, and focus is on the name field.
C14_AllThreeFieldsShowErrors ==
    ExampleSubmitted =>
        /\ \A f \in FieldSet : ariaInvalid[f] /\ errorText[f] # ""
        /\ \A f, g \in FieldSet : f # g => errorText[f] # errorText[g]
        /\ ~last.valid /\ pendingSends = 0
        /\ focus = "name"

\* C14 (amended): after that submit the email and message fields show an
\* error each, the two messages differ, the name field (two characters)
\* shows none, no send was started, and focus is on the email field.
C14_EmailAndMessageShowErrors ==
    ExampleSubmitted =>
        /\ Shows("name", NoError)
        /\ ariaInvalid["email"] /\ errorText["email"] # ""
        /\ ariaInvalid["message"] /\ errorText["message"] # ""
        /\ errorText["email"] # errorText["message"]
        /\ ~last.valid /\ pendingSends = 0
        /\ focus = "email"

\* The three values were submitted and the submit control is idle again.
C14_Witness ==
    /\ ExampleSubmitted
    /\ last.prevented /\ ~submitDisabled
    /\ errorText["email"] = "Please enter a valid email address."
    /\ errorText["message"] = "Message must be at least 10 characters."

(***************************************************************************)
(* Errors reaching the page (SpecFormAnyActions)                           *)
(***************************************************************************)
\* C15: whatever elements the page has and whatever events occur, a failing
\* send included, no handler raises an exception that nothing catches or
\* leaves a rejected promise that nothing handles.
C15_NoErrorReachesPage == ~unhandled

(***************************************************************************)
(* Claims about initialisation on an incomplete page (SpecPage)            *)
(***************************************************************************)
\* The elements a module cannot work without.
RequiredElements(m) ==
    CASE m = "initSmoothScroll" -> {}
      [] m = "initNavHighlight" -> {"navLinks", "sections"}
      [] m = "initMobileNav" -> {"toggle", "nav"}
      [] m = "initSkillFilter" -> {"filterBtns", "skillItems"}
      [] m = "initExperience" -> {"detailsEls"}
      [] m = "initContactForm" -> {"form", "submitBtn", "successEl"}

Complete(m) == RequiredElements(m) \subseteq present

BurstOver == burstEvents > 0 /\ elapsed = DebounceWait /\ 0 \notin timers

\* C17: a burst of resize events, each less than the wait after the one
\* before, causes exactly one observer re-subscription, and only once the
\* wait has passed since the last event of the burst; the re-subscription
\* leaves the set of observed sections unchanged.
C17_BurstResubscribesOnce ==
    /\ [](burstFires <= 1 /\ (BurstOver => burstFires = 1))
    /\ [][resizeLast' = "timer"
             => /\ elapsed = DebounceWait
                /\ burstFires = 0
                /\ observed' = observed /\ observed' = Sections
         ]_vars

\* A burst of MaxBurst resize events is over and has caused one
\* re-subscription.
C17_Witness ==
    /\ burstEvents = MaxBurst /\ BurstOver
    /\ burstFires = 1 /\ resizeLast = "timer"
    /\ observed = Sections

(***************************************************************************)
(* The aria-expanded mirror of the accordion (SpecAccordion)               *)
(***************************************************************************)
Queued(e) == \E i \in 1..Len(toggleQueue) : toggleQueue[i] = e

\* C19: an entry that has no toggle event waiting to be handled, whether
\* the user changed it or it was closed because another entry was opened,
\* has a summary whose aria-expanded equals its open flag; Space on a
\* summary flips that entry's open flag and queues its toggle event.
C19_AriaExpandedMirrorsOpen ==
    /\ [](\A e \in Entries : ~Queued(e) => ariaExpanded[e] = open[e])
    /\ [][keyed' # 0 => /\ open'[keyed'] = ~open[keyed']
                        /\ \E i \in 1..Len(toggleQueue') : toggleQueue'[i] = keyed'
         ]_vars

\* The toggle event of a closed entry was the last to be handled, another
\* entry is open, nothing is waiting, and the closed entry's summary says
\* aria-expanded false.
C19_Witness ==
    /\ handled # 0 /\ ~open[handled] /\ ~ariaExpanded[handled]
    /\ toggleQueue = <<>>
    /\ \E o \in Entries : o # handled /\ open[o] /\ ariaExpanded[o]

(***************************************************************************)
(* The email rule (SpecRule)                                               *)
(***************************************************************************)
\* t is non-empty, has no whitespace and exactly one "@", and a "." follows
\* the "@" with something before the "@", between the two, and after the ".".
WellFormedEmail(t) ==
    /\ t # <<>>
    /\ \A k \in 1..Len(t) : t[k] # " "
    /\ Cardinality({k \in 1..Len(t) : t[k] = "@"}) = 1
    /\ \E i, j \in 1..Len(t) :
           /\ t[i] = "@" /\ t[j] = "."
           /\ 1 < i /\ i + 1 < j /\ j < Len(t)

\* C21 (as stated): the email validator accepts a value exactly when the
\* value is non-empty, has no whitespace, and has exactly one "@" followed
\* later by a "." with non-empty parts around them.
C21_AcceptsIffWellFormed ==
    emailResult # "unset" => ((emailResult = NoError) <=> WellFormedEmail(emailArg))

\* C21 (amended): the validator accepts a value exactly when the value with
\* the whitespace at its two ends removed is well formed in that sense, and
\* returns one of its two error messages for every other value.
C21_AcceptsIffTrimmedWellFormed ==
    emailResult # "unset" =>
        /\ (emailResult = NoError) <=> WellFormedEmail(Trim(emailArg))
        /\ emailResult \in {NoError, "Email address is required.",
                            "Please enter a valid email address."}

\* A value with a space in front of a well-formed address was accepted.
C21_Witness ==
    /\ emailResult = NoError
    /\ emailArg # <<>> /\ Head(emailArg) = " "
    /\ WellFormedEmail(Tail(emailArg))

(***************************************************************************)
(* The copy-email confirmation (SpecCopy)                                  *)
(***************************************************************************)
\* C22: after each copy that completed the confirmation is visible and the
\* button is marked copied; the confirmation is visible exactly when the
\* button is marked; a reset happens only when the reset period has passed
\* since the most recent showing, so a reset pending from an earlier copy
\* never hides the confirmation of a later one; and, the user starting
\* finitely many copies, a visible confirmation is eventually hidden again.
C22_ConfirmationShownThenReset ==
    /\ [](isCopied <=> ~confirmHidden)
    /\ [][copyLast' \in {"resolved", "rejected"} => (isCopied' /\ ~confirmHidden')]_vars
    /\ [][copyLast' = "reset" => sinceConfirm = ResetDelay]_vars
    /\ (~confirmHidden) ~> confirmHidden

\* Every copy the user started has completed, and the reset timer of the
\* last one has hidden the confirmation.
C22_Witness ==
    /\ copies = MaxCopies /\ writesPending = 0
    /\ copyLast = "reset" /\ sinceConfirm = ResetDelay
    /\ confirmHidden /\ ~isCopied /\ resetTimers = {}

(***************************************************************************)
(* Further claims about the contact form (SpecForm)                        *)
(***************************************************************************)
\* C23: for each of the three fields, in every reachable state, the
\* aria-invalid marker, a non-empty error text and the group's error class
\* are all present or all absent.
C23_ErrorDisplayConsistent ==
    \A f \in FieldSet :
        /\ ariaInvalid[f] <=> (errorText[f] # "")
        /\ ariaInvalid[f] <=> groupError[f]

\* One field shows an error in all three ways while another, whose error
\* an edit has cleared, shows it in none.
C23_Witness ==
    \E f, g \in FieldSet :
        /\ ariaInvalid[f] /\ errorText[f] # "" /\ groupError[f]
        /\ g \in corrected
        /\ ~ariaInvalid[g] /\ errorText[g] = "" /\ ~groupError[g]

\* C24: in the state in which the success confirmation has just become
\* visible no field carries the invalid marker, whatever edits and blur
\* validations took place while the send was outstanding.
C24_NoInvalidFieldAtSuccess ==
    (last.op = "resolve" /\ ~successHidden) => \A f \in FieldSet : ~ariaInvalid[f]

\* C25: the top-level submit error message and the success confirmation
\* are never displayed together; after a failed send and a successful
\* resubmission the error message is no longer shown.
C25_SubmitErrorGoneAtSuccess ==
    ~successHidden => (submitErrorCount = 0 \/ submitErrorText = "")

(***************************************************************************)
(* The section highlight with nothing visible (SpecNav)                    *)
(***************************************************************************)
\* C26: an observer update after which every section's ratio is zero
\* leaves the active section and every nav link's active marker (class and
\* aria-current) unchanged; the active section is always none or the id of
\* an observed section, and once set it never becomes none again.
C26_NothingVisibleKeepsActive ==
    /\ [](activeId \in Sections \cup {Null})
    /\ [][(\A sec \in Sections : ratioMap'[sec] = 0)
             => UNCHANGED <<activeId, linkClass, ariaCurrent>>]_vars
    /\ [][activeId # Null => activeId' # Null]_vars

\* A section is active and marked on its link, and the last observer
\* update, which found it active already, left every ratio at zero.
C26_Witness ==
    /\ \A sec \in Sections : ratioMap[sec] = 0
    /\ activeId # Null /\ prevActiveId = activeId
    /\ \E k \in NavLinks : DataSection(k) = activeId /\ linkClass[k] /\ ariaCurrent[k] = "true"

=============================================================================
